---- MODULE Spec2Model ----
(***************************************************************************)
(* Model of yaylib's AuthApi.login (src/yaylib/api/auth.py, lines 126-201) *)
(* together with the credential store it drives (client.state).            *)
(*                                                                         *)
(* login is one awaited chain: key derivation, store lookup, then either   *)
(* the cached path (decrypt, set_user, return) or the network path (build  *)
(* payload, await client.request, set_user, save, return).  The only await *)
(* is client.request, so a call is two steps: Login (everything up to the  *)
(* await, or the whole call when no request is sent) and the completion of *)
(* the await (DispatcherOk, DispatcherFail, Cancel).                       *)
(***************************************************************************)
EXTENDS Integers, Sequences, FiniteSets, TLC

\* ---------------------------------------------------------------- bounds
MaxLogins == 3
MaxRestarts == 1

\* ------------------------------------------------------- input universes
Emails == {"a@x.com", "b@x.com"}
Passwords == {"pw1", "pw2"}
UserIds == {1, 2}
DeviceUuids == {"D1", "D2"}
TokenIds == {1, 2}
\* two_fa_code: None (the default), the empty string, a code.
NoneValue == "<None>"
TwoFaCodes == {NoneValue, "", "123456"}
DispatcherErrors == {"HTTPError", "ClientError"}

\* Python truthiness of an Optional[str]
Truthy(v) == v # NoneValue /\ v # ""

\* config.API_KEY, config.API_HOST
API_KEY == "API_KEY"
API_HOST == "API_HOST"
LOGIN_URL == <<API_HOST, "/v3/users/login_with_email">>

\* Names of the errors login can raise to its caller.
InvalidToken == "InvalidToken"
UnboundLocalError == "UnboundLocalError"
CancelledError == "CancelledError"

\* ------------------------------------------------------ credential store
\* EncryptionKey: absent, or derived deterministically from a secret.
NoKey == <<>>
generate_key(secret) == <<"key", secret>>
has_encryption_key(k) == k # NoKey
set_encryption_key(secret) == generate_key(secret)

\* LocalUser (state.LocalUser)
LocalUser(user_id, email, device_uuid, access_token, refresh_token) ==
    [user_id |-> user_id, email |-> email, device_uuid |-> device_uuid,
     access_token |-> access_token, refresh_token |-> refresh_token]

\* Authenticated encryption: the ciphertext opens only under the key that
\* sealed it.
Encrypt(k, data) == [key |-> k, data |-> data]
CanDecrypt(k, blob) == blob.key = k

\* EncryptedRecord: user_id and email are the lookup columns, the rest is
\* sealed.
EncryptUser(k, u) ==
    [user_id |-> u.user_id, email |-> u.email,
     blob |-> Encrypt(k, [device_uuid |-> u.device_uuid,
                          access_token |-> u.access_token,
                          refresh_token |-> u.refresh_token])]

\* decrypt(user): defined only when CanDecrypt; otherwise it raises.
decrypt(k, rec) ==
    LocalUser(rec.user_id, rec.email, rec.blob.data.device_uuid,
              rec.blob.data.access_token, rec.blob.data.refresh_token)

\* get_user_by_email: the records matching the email (none or one).
get_user_by_email(st, email) == {r \in st : r.email = email}

\* set_user: write/overwrite the record for user.user_id.
set_user(st, k, u) == {r \in st : r.user_id # u.user_id} \cup {EncryptUser(k, u)}

\* destory(user_id): delete the record of user_id.
destory(st, user_id) == {r \in st : r.user_id # user_id}

\* save(): flush the buffered records to durable storage.
save(st) == st

\* A fresh Session State: no user, a device identifier.
NoUser(d) == LocalUser(0, "", d, <<>>, <<>>)

\* ------------------------------------------------------------ dispatcher
\* LoginUserResponse as the dispatcher returns it.
Responses ==
    {[user_id |-> u, access_token |-> <<"T", i>>, refresh_token |-> <<"R", i>>] :
        u \in UserIds, i \in TokenIds}
NoResponse == [user_id |-> 0, access_token |-> <<>>, refresh_token |-> <<>>]

\* ------------------------------------------------------------ login code
\* (mutant) the key is derived on every login.
LoginKey_Always(k, password) == set_encryption_key(password)

\* lines 138-139: derive a key only when none is set.
LoginKey(k, password) ==
    IF ~has_encryption_key(k) THEN set_encryption_key(password) ELSE k

\* (mutant) the cached record is never looked at.
CachedUser_Miss(st, email) == {}

\* line 141-142: the cached record login acts on, if any.
CachedUser(st, email) == get_user_by_email(st, email)

\* (mutant) the stale record is kept.
StaleStore_Keep(st, rec) == st
\* (mutant) every record is purged with the stale one.
StaleStore_All(st, rec) == {}

\* lines 145-146: on InvalidToken the stale record is destroyed.
StaleStore(st, rec) == destory(st, rec.user_id)

\* (mutant) the two tokens change places.
CachedResponse_Swapped(u) ==
    [user_id |-> u.user_id, access_token |-> u.refresh_token,
     refresh_token |-> u.access_token]

\* lines 156-162: the response built from the client's session.
CachedResponse(u) ==
    [user_id |-> u.user_id, access_token |-> u.access_token,
     refresh_token |-> u.refresh_token]

\* lines 163-177: payload is bound by the if and by the elif only.
Unbound == [unbound |-> TRUE]
BuildPayload(email, password, uuid, two_fa_code) ==
    IF Truthy(two_fa_code)
    THEN [api_key |-> API_KEY, email |-> email, password |-> password,
          uuid |-> uuid, two_fa_code |-> two_fa_code]
    ELSE IF two_fa_code = NoneValue
    THEN [api_key |-> API_KEY, email |-> email, password |-> password,
          uuid |-> uuid]
    ELSE Unbound

\* lines 179-184: the request handed to client.request.
LoginRequest(payload) == [method |-> "POST", url |-> LOGIN_URL, json |-> payload]

\* (mutant) the two tokens change places.
LoginLocalUser_Swapped(response, email, uuid) ==
    LocalUser(response.user_id, email, uuid,
              response.refresh_token, response.access_token)

\* lines 186-194: the LocalUser built from the response.
LoginLocalUser(response, email, uuid) ==
    LocalUser(response.user_id, email, uuid,
              response.access_token, response.refresh_token)

\* (mutant) the exception is swallowed and an empty response returned.
FailedResult_Swallowed(err) == [kind |-> "response", error |-> "", response |-> NoResponse]

\* line 179: an exception of the awaited request is not caught.
FailedResult(err) == [kind |-> "error", error |-> err, response |-> NoResponse]

\* lines 156, 201: a returned response.
Returned(resp) == [kind |-> "response", error |-> "", response |-> resp]
Pending == [kind |-> "none", error |-> "", response |-> NoResponse]

\* ----------------------------------------------------------------- state
VARIABLES
    key,        \* state's encryption key
    user,       \* state's current LocalUser fields (client.user_id, ...)
    store,      \* the store's records as the process sees them
    disk,       \* the records on durable storage
    pc,         \* "idle" | "awaiting" (login suspended in client.request)
    args,       \* arguments of the current / last login
    sent,       \* requests this login handed to the dispatcher
    ops,        \* store operations this login performed, in order
    answer,     \* what client.request gave back to this login
    result,     \* how the current / last login ended
    pre,        \* key, store, disk, user when the login was called
    keyFailed,  \* the login that derived the current key raised
    nLogins,
    nRestarts

vars == <<key, user, store, disk, pc, args, sent, ops, answer, result, pre,
          keyFailed, nLogins, nRestarts>>

NoArgs == [email |-> "", password |-> "", two_fa_code |-> NoneValue]

Snapshot == [key |-> key, store |-> store, disk |-> disk, user |-> user]

Init ==
    /\ key = NoKey
    /\ user \in {NoUser(d) : d \in DeviceUuids}
    /\ store = {}
    /\ disk = {}
    /\ pc = "idle"
    /\ args = NoArgs
    /\ sent = <<>>
    /\ ops = <<>>
    /\ answer = Pending
    /\ result = Pending
    /\ pre = [key |-> NoKey, store |-> {}, disk |-> {}, user |-> user]
    /\ keyFailed = FALSE
    /\ nLogins = 0
    /\ nRestarts = 0

\* login(email, password, two_fa_code) up to its first await or its end.
Login(email, password, two_fa_code) ==
    /\ pc = "idle"
    /\ nLogins < MaxLogins
    /\ nLogins' = nLogins + 1
    /\ args' = [email |-> email, password |-> password, two_fa_code |-> two_fa_code]
    /\ pre' = Snapshot
    /\ answer' = Pending
    /\ key' = LoginKey(key, password)
    /\ UNCHANGED nRestarts
    /\ LET found == CachedUser(store, email) IN
       IF found # {}
       THEN LET rec == CHOOSE r \in found : TRUE IN
            IF CanDecrypt(key', rec.blob)
            THEN \* lines 144, 152-162
                 /\ user' = decrypt(key', rec)
                 /\ store' = set_user(store, key', user')
                 /\ ops' = <<"decrypt", "set_user">>
                 /\ result' = Returned(CachedResponse(user'))
                 /\ sent' = <<>>
                 /\ pc' = "idle"
                 /\ keyFailed' = IF key = NoKey THEN FALSE ELSE keyFailed
                 /\ UNCHANGED disk
            ELSE \* lines 145-150
                 /\ store' = StaleStore(store, rec)
                 /\ disk' = StaleStore(disk, rec)
                 /\ ops' = <<"decrypt", "destory">>
                 /\ result' = FailedResult(InvalidToken)
                 /\ sent' = <<>>
                 /\ pc' = "idle"
                 /\ keyFailed' = IF key = NoKey THEN TRUE ELSE keyFailed
                 /\ UNCHANGED user
       ELSE LET payload == BuildPayload(email, password, user.device_uuid, two_fa_code) IN
            IF payload = Unbound
            THEN \* line 182: payload is read unbound
                 /\ result' = FailedResult(UnboundLocalError)
                 /\ sent' = <<>>
                 /\ ops' = <<>>
                 /\ pc' = "idle"
                 /\ keyFailed' = IF key = NoKey THEN TRUE ELSE keyFailed
                 /\ UNCHANGED <<user, store, disk>>
            ELSE \* lines 179-184: suspended in client.request
                 /\ sent' = <<LoginRequest(payload)>>
                 /\ ops' = <<>>
                 /\ result' = Pending
                 /\ pc' = "awaiting"
                 /\ keyFailed' = IF key = NoKey THEN FALSE ELSE keyFailed
                 /\ UNCHANGED <<user, store, disk>>

\* (mutant) set_user is not followed by save.
DispatcherOk_NoSave(response) ==
    /\ pc = "awaiting"
    /\ LET u == LoginLocalUser(response, args.email, user.device_uuid) IN
       /\ user' = u
       /\ store' = set_user(store, key, u)
    /\ ops' = ops \o <<"set_user">>
    /\ answer' = Returned(response)
    /\ result' = Returned(response)
    /\ pc' = "idle"
    /\ UNCHANGED <<key, disk, args, sent, pre, keyFailed, nLogins, nRestarts>>

\* client.request returns a LoginUserResponse: lines 186-201.
DispatcherOk(response) ==
    /\ pc = "awaiting"
    /\ LET u == LoginLocalUser(response, args.email, user.device_uuid) IN
       /\ user' = u
       /\ store' = set_user(store, key, u)
       /\ disk' = save(store')
    /\ ops' = ops \o <<"set_user", "save">>
    /\ answer' = Returned(response)
    /\ result' = Returned(response)
    /\ pc' = "idle"
    /\ UNCHANGED <<key, args, sent, pre, keyFailed, nLogins, nRestarts>>

\* (mutant) a failed login puts the key back as it found it.
DispatcherFail_ResetsKey(err) ==
    /\ pc = "awaiting"
    /\ answer' = [kind |-> "error", error |-> err, response |-> NoResponse]
    /\ result' = FailedResult(err)
    /\ pc' = "idle"
    /\ key' = pre.key
    /\ keyFailed' = FALSE
    /\ UNCHANGED <<user, store, disk, args, sent, ops, pre, nLogins, nRestarts>>

\* client.request raises: nothing in login catches it.
DispatcherFail(err) ==
    /\ pc = "awaiting"
    /\ answer' = [kind |-> "error", error |-> err, response |-> NoResponse]
    /\ result' = FailedResult(err)
    /\ pc' = "idle"
    /\ keyFailed' = IF pre.key = NoKey THEN TRUE ELSE keyFailed
    /\ UNCHANGED <<key, user, store, disk, args, sent, ops, pre, nLogins, nRestarts>>

\* the task awaiting client.request is cancelled.
Cancel ==
    /\ pc = "awaiting"
    /\ result' = FailedResult(CancelledError)
    /\ pc' = "idle"
    /\ keyFailed' = IF pre.key = NoKey THEN TRUE ELSE keyFailed
    /\ UNCHANGED <<key, user, store, disk, args, sent, ops, answer, pre, nLogins, nRestarts>>

\* The process ends and a new one starts on the same storage path.
Restart(d) ==
    /\ pc = "idle"
    /\ nRestarts < MaxRestarts
    /\ nRestarts' = nRestarts + 1
    /\ key' = NoKey
    /\ user' = NoUser(d)
    /\ store' = disk
    /\ args' = NoArgs
    /\ sent' = <<>>
    /\ ops' = <<>>
    /\ answer' = Pending
    /\ result' = Pending
    /\ pre' = [key |-> NoKey, store |-> disk, disk |-> disk, user |-> NoUser(d)]
    /\ keyFailed' = FALSE
    /\ UNCHANGED <<disk, pc, nLogins>>

Next ==
    \/ \E e \in Emails, p \in Passwords, c \in TwoFaCodes : Login(e, p, c)
    \/ \E r \in Responses : DispatcherOk(r)
    \/ \E err \in DispatcherErrors : DispatcherFail(err)
    \/ Cancel
    \/ \E d \in DeviceUuids : Restart(d)

Spec == Init /\ [][Next]_vars

\* ---------------------------------------------------------------- claims
\* A login has been called in this process and args, pre describe it.
Called == args # NoArgs
\* Its end: a response was returned or an error raised.
Ended == Called /\ pc = "idle"
\* The records the store held for the login's email when it was called.
CachedBefore == get_user_by_email(pre.store, args.email)
\* The record a network login is to persist.
Written ==
    EncryptUser(key, LocalUser(answer.response.user_id, args.email,
                               pre.user.device_uuid,
                               answer.response.access_token,
                               answer.response.refresh_token))
\* The login went to the network and the dispatcher answered successfully.
NetOk == Ended /\ CachedBefore = {} /\ answer.kind = "response"

\* C1: a login whose email has a record in the store, sealed under the
\* current encryption key, sends no request and returns a response carrying
\* the cached record's access_token, refresh_token and user_id.
C1_CacheHit ==
    \A r \in CachedBefore :
        (Called /\ r.blob.key = key) =>
            /\ pc = "idle"
            /\ sent = <<>>
            /\ result.kind = "response"
            /\ result.response.user_id = r.user_id
            /\ result.response.access_token = r.blob.data.access_token
            /\ result.response.refresh_token = r.blob.data.refresh_token
C1_Witness ==
    /\ Ended /\ result.kind = "response" /\ sent = <<>>
    /\ \E r \in CachedBefore : r.blob.key = key /\ pre.key = NoKey

\* C2 as stated: a network login that the dispatcher answers successfully
\* sends exactly one request, to the login endpoint, and leaves the store
\* with exactly one record more than before, the one built from the response.
C2_Original ==
    NetOk =>
        /\ Len(sent) = 1
        /\ sent[1].url = LOGIN_URL
        /\ Written \in disk
        /\ Cardinality(disk) = Cardinality(pre.disk) + 1
\* C2 amended: such a login sends exactly one request, to the login endpoint,
\* and leaves the store holding the record built from the response in place of
\* whatever record it held for the response's user_id, every other record
\* untouched; the store grows by one exactly when it held no record for that
\* user_id.
C2_Amended ==
    NetOk =>
        /\ Len(sent) = 1
        /\ sent[1].method = "POST"
        /\ sent[1].url = LOGIN_URL
        /\ result = Returned(answer.response)
        /\ disk = {r \in pre.disk : r.user_id # answer.response.user_id} \cup {Written}
        /\ store = disk
        /\ Cardinality(disk) =
              IF \E r \in pre.disk : r.user_id = answer.response.user_id
              THEN Cardinality(pre.disk) ELSE Cardinality(pre.disk) + 1
C2_Witness ==
    /\ NetOk
    /\ \E r \in pre.disk : r.user_id = answer.response.user_id
    /\ Cardinality(disk) = Cardinality(pre.disk)
    /\ Written \in disk

\* C3: when the record found for the email does not open under the current
\* key, login raises the decryption error, sends no request, and the store
\* holds no record for the record's user_id.
C3_StaleRecord ==
    \A r \in CachedBefore :
        (Called /\ r.blob.key # key) =>
            /\ pc = "idle"
            /\ result = FailedResult(InvalidToken)
            /\ sent = <<>>
            /\ answer.kind = "none"
            /\ \A q \in store \cup disk : q.user_id # r.user_id
C3_Witness ==
    /\ Ended /\ result.kind = "error" /\ result.error = InvalidToken
    /\ \E r \in CachedBefore : r.blob.key # key /\ r \in pre.disk /\ r \notin disk

\* The store operations of the login that write.
Writes == {i \in 1..Len(ops) : ops[i] \in {"set_user", "save", "destory"}}

\* C4 as stated: a login that fails or is cancelled has made no write to the
\* store (set_user, save, destroy) and leaves it as it was when called.
C4_Original ==
    (Ended /\ result.kind = "error") =>
        (Writes = {} /\ store = pre.store /\ disk = pre.disk)
\* C4 amended: a login that is cancelled or fails on the network path leaves
\* the store as it was, and on that path set_user and save follow a successful
\* dispatcher response; the one failing login that changes the store is the
\* decryption failure, which removes the stale record and nothing else, with
\* no request sent; the cached path calls set_user with no request and leaves
\* the store's content as it was.
C4_Amended ==
    /\ (Called /\ pc = "awaiting") =>
          (ops = <<>> /\ store = pre.store /\ disk = pre.disk)
    /\ (Ended /\ result.kind = "error" /\ result.error # InvalidToken) =>
          (Writes = {} /\ store = pre.store /\ disk = pre.disk)
    /\ (Ended /\ result.kind = "error" /\ result.error = InvalidToken) =>
          /\ ops = <<"decrypt", "destory">>
          /\ sent = <<>>
          /\ store = pre.store \ CachedBefore
          /\ disk = pre.disk \ get_user_by_email(pre.disk, args.email)
    /\ (Ended /\ result.kind = "response" /\ sent = <<>>) =>
          (ops = <<"decrypt", "set_user">> /\ store = pre.store /\ disk = pre.disk)
    /\ (Ended /\ result.kind = "response" /\ sent # <<>>) =>
          (ops = <<"set_user", "save">> /\ answer.kind = "response")
C4_Witness ==
    /\ Ended /\ result.kind = "error" /\ result.error = CancelledError
    /\ pre.disk # {} /\ disk = pre.disk /\ Len(sent) = 1

\* C5 as stated: on the network path every two_fa_code value leads to exactly
\* one request, whose payload carries two_fa_code exactly when it is truthy.
C5_Claim ==
    (Called /\ CachedBefore = {}) =>
        /\ Len(sent) = 1
        /\ ("two_fa_code" \in DOMAIN sent[1].json) <=> Truthy(args.two_fa_code)

\* C6: within one process the encryption key, once set, never changes, and a
\* login sets it (to the key derived from its password) only when none is set.
C6_KeySetOnce ==
    [][/\ (key # NoKey /\ nRestarts' = nRestarts) => key' = key
       /\ (key = NoKey /\ key' # NoKey) =>
             (nLogins' = nLogins + 1 /\ key' = generate_key(args'.password))]_vars
C6_Witness ==
    /\ Ended /\ nLogins >= 2 /\ pre.key # NoKey
    /\ key = pre.key /\ key # generate_key(args.password)

\* C7: the store never holds two records with the same user_id or the same
\* email, so a lookup by email finds at most one record.
C7_UniqueKeys ==
    /\ \A st \in {store, disk} : \A r1, r2 \in st :
          (r1.user_id = r2.user_id \/ r1.email = r2.email) => r1 = r2
    /\ \A e \in Emails : Cardinality(get_user_by_email(store, e)) <= 1
C7_Witness ==
    /\ NetOk /\ Cardinality(pre.disk) = 1 /\ Cardinality(disk) = 2
    /\ \E r1, r2 \in disk : r1.blob.key # r2.blob.key

\* C8: the LocalUser a network login wrote with set_user and save is what a
\* lookup by its email and decrypt under the same key give back from durable
\* storage, and the next login with the same email in the same process
\* returns the tokens the first obtained, with no request.
C8_ReadBack ==
    NetOk =>
        /\ get_user_by_email(disk, args.email) # {}
        /\ \A r \in get_user_by_email(disk, args.email) :
              /\ CanDecrypt(key, r.blob)
              /\ decrypt(key, r) = user
              /\ decrypt(key, r) =
                    LocalUser(answer.response.user_id, args.email,
                              pre.user.device_uuid,
                              answer.response.access_token,
                              answer.response.refresh_token)
C8_SecondLogin ==
    (NetOk /\ nLogins' = nLogins + 1 /\ args'.email = args.email) =>
        /\ pc' = "idle"
        /\ sent' = <<>>
        /\ result' = Returned(answer.response)
C8_RoundTrip == []C8_ReadBack /\ [][C8_SecondLogin]_vars
C8_Witness ==
    /\ nLogins = 2 /\ nRestarts = 0 /\ Ended
    /\ result.kind = "response" /\ sent = <<>>
    /\ pre.user.email = args.email
    /\ result.response.access_token = pre.user.access_token

\* C9: a login ends either with a populated response or with an error raised,
\* never both or neither; it sends at most one request; a dispatcher failure
\* reaches the caller as the dispatcher raised it, after one request, with no
\* set_user or save.
C9_Outcome ==
    /\ Len(sent) <= 1
    /\ Ended =>
          \/ /\ result.kind = "response"
             /\ result.error = ""
             /\ result.response.user_id \in UserIds
             /\ result.response.access_token # <<>>
             /\ result.response.refresh_token # <<>>
          \/ /\ result.kind = "error"
             /\ result.error # ""
             /\ result.response = NoResponse
    /\ (Ended /\ answer.kind = "error") =>
          /\ result = answer
          /\ Len(sent) = 1
          /\ ops = <<>>
          /\ store = pre.store /\ disk = pre.disk
C9_Witness ==
    /\ Ended /\ answer.kind = "error" /\ answer.error = "ClientError"
    /\ result.kind = "error" /\ result.error = "ClientError" /\ Len(sent) = 1

\* C10: a login that raises after deriving the key leaves that key set, and a
\* later login in the same process keeps it whatever its password: the record
\* it persists is sealed under the key of the earlier, failed login.
C10_KeyKeptOnFailure ==
    /\ (Ended /\ result.kind = "error" /\ pre.key = NoKey) =>
          key = generate_key(args.password)
    /\ keyFailed => key # NoKey
    /\ (NetOk /\ pre.key # NoKey) =>
          /\ key = pre.key
          /\ \A r \in get_user_by_email(disk, args.email) : r.blob.key = pre.key
C10_Witness ==
    /\ keyFailed /\ NetOk /\ pre.key # NoKey
    /\ key # generate_key(args.password)
    /\ \E r \in get_user_by_email(disk, args.email) : r.blob.key = key

====
